---------------------------- MODULE Spec2Model ----------------------------
(***************************************************************************)
(* Fred, the Epic Games free-offer tracker (src/Fred/main.py).             *)
(*                                                                         *)
(* The model follows the coroutines of main.py between their await points: *)
(* the code from one await to the next runs without interruption on the    *)
(* event loop, so it is one action.  Wall-clock time is an integer clock;  *)
(* every comparison the code makes on datetimes is an order or a           *)
(* same-date comparison, which the discretisation keeps.                   *)
(***************************************************************************)
EXTENDS Integers, Sequences, FiniteSets, TLC

(***************************************************************************)
(* Bounds of the model.                                                    *)
(***************************************************************************)
MaxDay == 1          \* calendar days 0..MaxDay
DayLen == 3          \* clock instants per calendar day
MaxBoots == 2        \* process starts
MaxCurrent == 1      \* longest currentGames list of a response
MaxNext == 2         \* longest nextGames list of a response
MaxConfirm == 2      \* /confirm invocations of one user in flight
MaxStored == 2       \* longest current list of a file found at the start

(***************************************************************************)
(* Program constants.                                                      *)
(***************************************************************************)
TargetSlot == 1      \* 17:01 local time, as an instant of the day
ConfirmWindow == 1   \* timedelta(minutes=1)
NoDate == -1         \* last_daily_run = None

MaxClock == (MaxDay + 1) * DayLen - 1
DayOf(c) == c \div DayLen         \* now.date()
SlotOf(c) == c % DayLen           \* now.time()

Titles == {"A", "B"}
\* An offer, a dict of the upstream schema: run_check reads its title only.
Offers == [title : Titles]

SeqsUpTo(S, n) == UNION {[1..k -> S] : k \in 0..n}

Owner == "owner"
Guest == "guest"
Users == {Owner, Guest}
None == "none"
InteractionChannel == "ic"
\* What get_free_game_channels() can return.
ChannelLists == {<<>>, <<"c1", "c2">>}

\* Results of fetch_games(): None, or the parsed JSON body.
FetchNone == [kind |-> "none", currentGames |-> <<>>, nextGames |-> <<>>]
EmptyBody == [kind |-> "empty", currentGames |-> <<>>, nextGames |-> <<>>]
Bodies == [kind : {"json"},
           currentGames : SeqsUpTo(Offers, MaxCurrent),
           nextGames : SeqsUpTo(Offers, MaxNext)]
FetchResults == {FetchNone, EmptyBody} \cup Bodies
\* `if not data`: None and {} are falsy.
Falsy(data) == data.kind \in {"none", "empty"}

TitleSet(games) == {games[i].title : i \in 1..Len(games)}

\* A bug: the lists are compared, not their titles.
are_games_same_Lists(new_games, old_games) == new_games = old_games

are_games_same(new_games, old_games) == TitleSet(new_games) = TitleSet(old_games)

\* A bug: every fetched upcoming offer counts as new.
NewUpcoming_All(next_games, stored) == next_games

\* new_upcoming of run_check
NewUpcoming(next_games, stored) ==
    LET Fresh(g) == g.title \notin TitleSet(stored)
    IN  SelectSeq(next_games, Fresh)

(***************************************************************************)
(* The durable file posted_games.json.                                     *)
(***************************************************************************)
AbsentFile == [kind |-> "absent", current |-> <<>>, upcoming |-> <<>>,
               last_daily_run |-> NoDate]
CorruptFile == [kind |-> "corrupt", current |-> <<>>, upcoming |-> <<>>,
                last_daily_run |-> NoDate]
\* A file open() or read() refuses: no permission, a directory, bytes that
\* are not UTF-8.
UnreadableFile == [kind |-> "unreadable", current |-> <<>>, upcoming |-> <<>>,
                   last_daily_run |-> NoDate]
\* Valid JSON that is no object: a list, a string, a number, null.
NotDictFile == [kind |-> "notdict", current |-> <<>>, upcoming |-> <<>>,
                last_daily_run |-> NoDate]
\* A JSON object; a key it lacks reads as the default of data.get().
JsonFile(cur, upc, ldr) == [kind |-> "json", current |-> cur, upcoming |-> upc,
                            last_daily_run |-> ldr]
\* A bug: the stored date is not read back.
Load_NoDate(file) ==
    IF file.kind = "json"
    THEN [current |-> file.current, upcoming |-> file.upcoming,
          last_daily_run |-> NoDate]
    ELSE [current |-> <<>>, upcoming |-> <<>>, last_daily_run |-> NoDate]

\* The module-level load block: the three fields, or the zero state.
Load(file) ==
    IF file.kind = "json"
    THEN [current |-> file.current, upcoming |-> file.upcoming,
          last_daily_run |-> file.last_daily_run]
    ELSE [current |-> <<>>, upcoming |-> <<>>, last_daily_run |-> NoDate]

\* The load block catches FileNotFoundError and JSONDecodeError only: any
\* other error of open(), json.load() or data.get() ends the import.
LoadRaises(file) == file.kind \in {"unreadable", "notdict"}

\* A dict as a function on its keys.
EmptyDict == [k \in {} |-> 0]
DictSet(d, k, v) == [x \in DOMAIN d \cup {k} |-> IF x = k THEN v ELSE d[x]]
DictPop(d, k) == [x \in DOMAIN d \ {k} |-> d[x]]

VARIABLES
    clock,                  \* datetime.now(CET)
    proc,                   \* the process: down, onready, catchup, ready
    boots,                  \* process starts so far
    posted_games, posted_upcoming, last_daily_run,
    disk,                   \* posted_games.json
    pending_confirmations,  \* dict: mention -> expiry
    task,                   \* the run_check call of each trigger path
    armed, nextFire,        \* daily_check: running, and its next iteration
    startNow,               \* `now` of on_ready
    last,                   \* the latest run_check, if it found a change
    result,                 \* how run_check ended, in the step it ended
    schedDay,               \* the date of the scheduler's latest run_check
    confirming,             \* confirm_slash calls waiting in defer(), by user
    reply,                  \* what the latest confirm_slash answered
    uses,                   \* successful confirms since the user's latest grant
    wire,                   \* the endpoint's answer on its way to each call
    newest,                 \* the answer the endpoint gave last
    stamped                 \* the date line 266 assigned last, in any process

vars == <<clock, proc, boots, posted_games, posted_upcoming, last_daily_run,
          disk, pending_confirmations, task, armed, nextFire, startNow,
          last, result, schedDay, confirming, reply, uses, wire, newest,
          stamped>>

Tasks == {"sched", "manual"}

\* A run_check call: where it is, its arguments, and its channel loop.
IdleTask == [pc |-> "idle", reqr |-> None, ichan |-> None, saved |-> None,
             todo |-> <<>>, delivered |-> {}]

\* The latest call of run_check to pass line 254, when it took the changed
\* path: the response it fetched, the embeds it built, whether it changed the
\* state, its save_posted() calls.  Calls that fetch the same response again
\* and find nothing new leave the record.
NoLast == [changed |-> FALSE, data |-> FetchNone, annCur |-> <<>>,
           annUp |-> <<>>, mutated |-> FALSE, saves |-> 0]
NoResult == None
\* No answer of the endpoint is on its way.
NoResponse == [kind |-> "pending", currentGames |-> <<>>, nextGames |-> <<>>]
\* confirm_slash's answer: the replay of posted_games, or the refusal.
NoReply == [to |-> None, ok |-> FALSE, games |-> <<>>]
\* What run_check returned on each path.
Ret(path) ==
    CASE path \in {"fetchfail", "nochan"} -> "False"
      [] path \in {"same", "announced"} -> "True"
      [] path = "raised" -> "raised"
      [] OTHER -> None

Init ==
    /\ clock = 0
    /\ proc = "down"
    /\ boots = 0
    /\ posted_games = <<>>
    /\ posted_upcoming = <<>>
    /\ last_daily_run = NoDate
    /\ disk = AbsentFile
    /\ pending_confirmations = EmptyDict
    /\ task = [t \in Tasks |-> IdleTask]
    /\ armed = FALSE
    /\ nextFire = 0
    /\ startNow = 0
    /\ last = NoLast
    /\ result = NoResult
    /\ schedDay = NoDate
    /\ confirming = [u \in Users |-> 0]
    /\ reply = NoReply
    /\ uses = [u \in Users |-> 0]
    /\ wire = [t \in Tasks |-> NoResponse]
    /\ newest = NoResponse
    /\ stamped = NoDate

(***************************************************************************)
(* Time.  An iteration of daily_check that is due runs before the clock    *)
(* moves on: asyncio wakes the loop at its deadline.                       *)
(***************************************************************************)
DailyDue == armed /\ nextFire <= clock /\ task["sched"].pc = "idle"

Tick(horizon) ==
    /\ clock < horizon
    /\ ~DailyDue
    /\ clock' = clock + 1
    /\ UNCHANGED <<proc, boots, posted_games, posted_upcoming, last_daily_run,
                   disk, pending_confirmations, task, armed, nextFire, startNow,
                   last, schedDay, confirming, reply, uses, wire, newest,
                   stamped>>
    /\ result' = NoResult

(***************************************************************************)
(* The callers of run_check.  `result = await run_check(...)` resumes the  *)
(* caller in the same step as the return, so the caller's continuation is  *)
(* part of the action that ends run_check.                                 *)
(***************************************************************************)
\* before_daily_check: the first iteration is at the next 17:01.
FirstFire(now) ==
    IF SlotOf(now) >= TargetSlot
    THEN (DayOf(now) + 1) * DayLen + TargetSlot
    ELSE DayOf(now) * DayLen + TargetSlot

\* on_ready line 109 with before_daily_check; skipped when run_check raised.
OnReadyResume(raised) ==
    /\ proc' = "ready"
    /\ IF raised THEN UNCHANGED <<armed, nextFire>>
       ELSE armed' = TRUE /\ nextFire' = FirstFire(clock)

\* daily_check lines 505-506.  save_posted() raises an OSError, which
\* tasks.loop counts among the errors it retries after: the body runs again
\* a backoff later, finds last_daily_run already today and does nothing, and
\* the loop waits for its next iteration.
DailyCheckResume(raised) == UNCHANGED <<proc, armed, nextFire>>

\* getgame_slash lines 403-404: only a message to the user.
GetgameResume(raised) == UNCHANGED <<proc, armed, nextFire>>

Resume(t, raised) ==
    IF t = "manual" THEN GetgameResume(raised)
    ELSE IF proc = "catchup" THEN OnReadyResume(raised)
    ELSE DailyCheckResume(raised)

(***************************************************************************)
(* run_check.  StartRunCheck is the call up to `await fetch_games()`.      *)
(***************************************************************************)
StartRunCheck(t, ctx_mention, interaction_channel) ==
    task' = [task EXCEPT ![t] = [IdleTask EXCEPT !.pc = "fetch",
                                                  !.reqr = ctx_mention,
                                                  !.ichan = interaction_channel]]

\* json.dump into the file opened "w": written, not opened, or cut short.
SaveOutcomes == {"ok", "openfail", "writefail"}
save_posted(outcome, cur, upc, ldr) ==
    CASE outcome = "ok" -> JsonFile(cur, upc, ldr)
      [] outcome = "openfail" -> disk
      [] outcome = "writefail" -> CorruptFile

\* The channels run_check posts to (lines 242-245).
Destinations(interaction_channel, found) ==
    IF interaction_channel # None THEN <<interaction_channel>> ELSE found

\* run_check ends: its caller goes on.
Return(t, path) ==
    /\ task' = [task EXCEPT ![t] = IdleTask]
    /\ result' = path
    /\ Resume(t, path = "raised")

\* A bug: the run date is stamped before the early returns.
ReturnFalse_Stamped(t, why) ==
    /\ Return(t, why)
    /\ last' = NoLast
    /\ last_daily_run' = DayOf(clock)
    /\ UNCHANGED <<posted_games, posted_upcoming, disk,
                   pending_confirmations, uses, stamped>>

\* Lines 238-240 and 247-249: return False.
ReturnFalse(t, why) ==
    /\ Return(t, why)
    /\ last' = NoLast
    /\ UNCHANGED <<posted_games, posted_upcoming, last_daily_run, disk,
                   pending_confirmations, uses, stamped>>

\* A bug: `or` for `and`.
GrantDue_Either(ctx_mention, interaction_channel) ==
    ctx_mention # None \/ interaction_channel # None

\* Line 255: a manual check made in a channel.
GrantDue(ctx_mention, interaction_channel) ==
    ctx_mention # None /\ interaction_channel # None

\* Lines 254-258: nothing new; a manual check in a channel leaves a grant.
SamePath(t, data) ==
    /\ IF GrantDue(task[t].reqr, task[t].ichan)
       THEN /\ pending_confirmations' =
                 DictSet(pending_confirmations, task[t].reqr, clock + ConfirmWindow)
            /\ uses' = [uses EXCEPT ![task[t].reqr] = 0]
       ELSE UNCHANGED <<pending_confirmations, uses>>
    /\ Return(t, "same")
    /\ last' = IF last.changed /\ data = last.data THEN last ELSE NoLast
    /\ UNCHANGED <<posted_games, posted_upcoming, last_daily_run, disk,
                   stamped>>

\* A bug: the exception of save_posted() is swallowed.
Saved_Swallowed(outcome) == TRUE

\* What follows save_posted(): the channel loop, or the exception that
\* leaves run_check.
Saved(outcome) == outcome = "ok"

\* Lines 260-270: replace, merge, stamp, save, build the embeds.
ChangedPath(t, data, channels, outcome) ==
    LET new_upcoming == NewUpcoming(data.nextGames, posted_upcoming)
    IN  /\ posted_games' = data.currentGames
        /\ posted_upcoming' = posted_upcoming \o new_upcoming
        /\ last_daily_run' = DayOf(clock)
        /\ stamped' = last_daily_run'
        /\ disk' = save_posted(outcome, posted_games', posted_upcoming',
                               last_daily_run')
        /\ last' = [changed |-> TRUE, data |-> data,
                    annCur |-> IF Saved(outcome) THEN data.currentGames ELSE <<>>,
                    annUp |-> IF Saved(outcome) THEN new_upcoming ELSE <<>>,
                    mutated |-> <<posted_games', posted_upcoming', last_daily_run'>>
                                 # <<posted_games, posted_upcoming, last_daily_run>>,
                    saves |-> 1]
        /\ IF Saved(outcome)
           THEN /\ task' = [task EXCEPT ![t].pc = "send",
                                        ![t].saved = outcome,
                                        ![t].todo = channels]
                /\ UNCHANGED <<proc, armed, nextFire>>
                /\ result' = NoResult
           ELSE Return(t, "raised")
        /\ UNCHANGED <<pending_confirmations, uses>>

\* A bug: every response counts as a change.
Unchanged_Never(data, force) == FALSE

\* A bug: `force` for `not force`.
Unchanged_Inverted(data, force) ==
    are_games_same(data.currentGames, posted_games) /\ force

\* Line 254
Unchanged(data, force) ==
    are_games_same(data.currentGames, posted_games) /\ ~force

\* run_check from the return of fetch_games() to its next await.
Reconcile(t, data, found, force, outcome) ==
    LET channels == Destinations(task[t].ichan, found)
    IN  IF Falsy(data) THEN ReturnFalse(t, "fetchfail")
        ELSE IF channels = <<>> THEN ReturnFalse(t, "nochan")
        ELSE IF Unchanged(data, force) THEN SamePath(t, data)
        ELSE ChangedPath(t, data, channels, outcome)

\* The inputs run_check reads on the way: the guilds' channels only without
\* an interaction channel, the file system only on the changed path.
FoundRead(t, data, founds) ==
    IF Falsy(data) \/ task[t].ichan # None THEN {<<>>} ELSE founds
SaveRead(data, outcomes) ==
    IF Falsy(data) \/ Unchanged(data, FALSE) THEN {"ok"} ELSE outcomes

\* The callers pass no force (lines 107, 504) or force=False (line 402).
RunCheckWith(t, data, found, outcome) ==
    /\ task[t].pc = "fetch"
    /\ Reconcile(t, data, found, FALSE, outcome)
    /\ UNCHANGED <<clock, boots, startNow, schedDay, confirming, reply>>

RunCheck(t, inputs, founds, outcomes) ==
    \E data \in inputs :
       \E found \in FoundRead(t, data, founds), outcome \in SaveRead(data, outcomes) :
          /\ RunCheckWith(t, data, found, outcome)
          /\ UNCHANGED <<wire, newest>>

\* A bug: a failed send ends the loop.
LoopEnds_OnFailure(sent, rest) == rest = <<>> \/ ~sent

\* Lines 272 and 285: the loop ends with the list; the exception of a failed
\* send is caught inside the pass.
LoopEnds(sent, rest) == rest = <<>>

\* Lines 272-288: one pass of the channel loop, and after the last one
\* `return True`.
Announce(t) ==
    /\ task[t].pc = "send"
    /\ \E sent \in BOOLEAN :
          LET c == Head(task[t].todo)
              rest == Tail(task[t].todo)
          IN  IF ~LoopEnds(sent, rest)
              THEN /\ task' = [task EXCEPT
                         ![t].delivered = IF sent THEN @ \cup {c} ELSE @,
                         ![t].todo = rest]
                   /\ UNCHANGED <<proc, armed, nextFire>>
                   /\ result' = NoResult
              ELSE Return(t, "announced")
    /\ UNCHANGED <<clock, boots, posted_games, posted_upcoming,
                   last_daily_run, disk, pending_confirmations, startNow, last,
                   schedDay, confirming, reply, uses, wire, newest, stamped>>

(***************************************************************************)
(* The process: start (module load, then on_ready) and shutdown.           *)
(***************************************************************************)
Boot(maxBoots) ==
    /\ proc = "down"
    /\ boots < maxBoots
    /\ boots' = boots + 1
    /\ posted_games' = Load(disk).current
    /\ posted_upcoming' = Load(disk).upcoming
    /\ last_daily_run' = Load(disk).last_daily_run
    /\ startNow' = IF LoadRaises(disk) THEN 0 ELSE clock
    /\ proc' = IF LoadRaises(disk) THEN "down" ELSE "onready"
    /\ result' = NoResult
    /\ UNCHANGED <<clock, disk, pending_confirmations, task, armed, nextFire,
                   last, schedDay, confirming, reply, uses, wire, newest,
                   stamped>>

\* A bug: `>` for `>=`.
LateStart_Strict(now) == last_daily_run # DayOf(now) /\ SlotOf(now) > TargetSlot

\* on_ready line 105
LateStart(now) == last_daily_run # DayOf(now) /\ SlotOf(now) >= TargetSlot

\* on_ready lines 102-109, up to `await run_check()` or through
\* daily_check.start() and before_daily_check.
OnReady ==
    /\ proc = "onready"
    /\ IF LateStart(startNow)
       THEN /\ StartRunCheck("sched", None, None)
            /\ schedDay' = DayOf(clock)
            /\ proc' = "catchup"
            /\ UNCHANGED <<armed, nextFire>>
       ELSE /\ OnReadyResume(FALSE)
            /\ UNCHANGED <<task, schedDay>>
    /\ startNow' = 0
    /\ UNCHANGED <<clock, boots, posted_games, posted_upcoming, last_daily_run,
                   disk, pending_confirmations, last, confirming, reply, uses,
                   wire, newest, stamped>>
    /\ result' = NoResult

\* shutdown_slash: bot.close() ends the process; its memory is gone.
Shutdown ==
    /\ proc # "down"
    /\ proc' = "down"
    /\ posted_games' = <<>>
    /\ posted_upcoming' = <<>>
    /\ last_daily_run' = NoDate
    /\ pending_confirmations' = EmptyDict
    /\ task' = [t \in Tasks |-> IdleTask]
    /\ armed' = FALSE
    /\ nextFire' = 0
    /\ startNow' = 0
    /\ last' = NoLast
    /\ result' = NoResult
    /\ confirming' = [u \in Users |-> 0]
    /\ reply' = NoReply
    /\ uses' = [u \in Users |-> 0]
    /\ wire' = [t \in Tasks |-> NoResponse]
    /\ newest' = NoResponse
    /\ UNCHANGED <<clock, boots, disk, schedDay, stamped>>

(***************************************************************************)
(* daily_check, a tasks.loop(hours=24): lines 500-504.                     *)
(***************************************************************************)
DailyCheck ==
    /\ DailyDue
    /\ nextFire' = nextFire + DayLen
    /\ IF last_daily_run # DayOf(clock)
       THEN StartRunCheck("sched", None, None) /\ schedDay' = DayOf(clock)
       ELSE UNCHANGED <<task, schedDay>>
    /\ UNCHANGED <<clock, proc, boots, posted_games, posted_upcoming,
                   last_daily_run, disk, pending_confirmations, armed, startNow,
                   last, confirming, reply, uses, wire, newest, stamped>>
    /\ result' = NoResult

(***************************************************************************)
(* /getgame, owner only: lines 397-402.                                    *)
(***************************************************************************)
Getgame ==
    /\ proc # "down"
    /\ task["manual"].pc = "idle"
    /\ \E channel \in {None, InteractionChannel} :
          StartRunCheck("manual", Owner, channel)
    /\ UNCHANGED <<clock, proc, boots, posted_games, posted_upcoming,
                   last_daily_run, disk, pending_confirmations, armed,
                   nextFire, startNow, last, schedDay, confirming, reply, uses,
                   wire, newest, stamped>>
    /\ result' = NoResult

(***************************************************************************)
(* /confirm, any user.                                                     *)
(***************************************************************************)
\* confirm_slash up to `await interaction.response.defer()`
ConfirmDefer(u) ==
    /\ proc # "down"
    /\ confirming[u] < MaxConfirm
    /\ confirming' = [confirming EXCEPT ![u] = @ + 1]
    /\ result' = NoResult
    /\ UNCHANGED <<clock, proc, boots, posted_games, posted_upcoming,
                   last_daily_run, disk, pending_confirmations, task, armed,
                   nextFire, startNow, last, schedDay, reply, uses, wire,
                   newest, stamped>>

\* A bug: `<` for `<=`.
Valid_Strict(mention, now) ==
    mention \in DOMAIN pending_confirmations
        /\ now < pending_confirmations[mention]

\* Line 411: `expiry and now <= expiry`, expiry None without an entry.
Valid(mention, now) ==
    mention \in DOMAIN pending_confirmations
        /\ now <= pending_confirmations[mention]

\* Lines 412-419: the grant is spent and the current games are shown.
Replay(u) ==
    /\ pending_confirmations' = DictPop(pending_confirmations, u)
    /\ reply' = [to |-> u, ok |-> TRUE, games |-> posted_games]
    /\ uses' = [uses EXCEPT ![u] = @ + 1]

\* Line 421
Refuse(u) ==
    /\ reply' = [to |-> u, ok |-> FALSE, games |-> <<>>]
    /\ UNCHANGED <<pending_confirmations, uses>>

\* confirm_slash from line 409 on
Confirm(u) ==
    /\ confirming[u] > 0
    /\ confirming' = [confirming EXCEPT ![u] = @ - 1]
    /\ IF Valid(u, clock) THEN Replay(u) ELSE Refuse(u)
    /\ result' = NoResult
    /\ UNCHANGED <<clock, proc, boots, posted_games, posted_upcoming,
                   last_daily_run, disk, task, armed, nextFire, startNow, last,
                   schedDay, wire, newest, stamped>>

(***************************************************************************)
(* The reconciliation engine: one process start, up to the first 17:01,    *)
(* over every response.                                                    *)
(***************************************************************************)
Next ==
    \/ Tick(TargetSlot)
    \/ Boot(1)
    \/ OnReady
    \/ Shutdown
    \/ DailyCheck
    \/ Getgame
    \/ \E t \in Tasks : RunCheck(t, FetchResults, ChannelLists, {"ok", "writefail"})
    \/ \E t \in Tasks : Announce(t)

Spec == Init /\ [][Next]_vars

(***************************************************************************)
(* The claims about run_check, under Spec.                                 *)
(***************************************************************************)
NoDuplicateTitle(games) == Cardinality(TitleSet(games)) = Len(games)

\* C1: Idempotence of reconcile.  When run_check (force False, a destination
\* channel) resumes with the very response of the call before it, and that
\* call found a change, then that call made one state mutation and one
\* save_posted() call, and this one ends Unchanged: posted_games,
\* posted_upcoming, last_daily_run and the file stay as they are and no
\* channel loop is entered.
C1_Idempotent ==
    [][ \A t \in Tasks, found \in ChannelLists :
          ( /\ last.changed
            /\ task[t].pc = "fetch"
            /\ task'[t].pc # "fetch"
            /\ Destinations(task[t].ichan, found) # <<>>
            /\ \E outcome \in SaveOutcomes :
                  RunCheckWith(t, last.data, found, outcome) )
          => /\ last.mutated
             /\ last.saves = 1
             /\ result' = "same"
             /\ task'[t].pc = "idle"
             /\ UNCHANGED <<posted_games, posted_upcoming, last_daily_run,
                            disk>> ]_vars

\* A call has just ended Unchanged on the response with which the call
\* before it found a change.
C1_Witness == result = "same" /\ last.changed /\ last.saves = 1

\* C2: State before announcement.  run_check enters its channel loop only
\* from the step in which save_posted() wrote the file with the state now in
\* memory, and a channel is only ever posted to from inside that loop: a
\* failed save ends the call with nothing sent.
C2_SaveBeforeAnnounce ==
    /\ [][ \A t \in Tasks :
             (task[t].pc # "send" /\ task'[t].pc = "send")
             => /\ task[t].pc = "fetch"
                /\ disk' = JsonFile(posted_games', posted_upcoming',
                                    last_daily_run') ]_vars
    /\ [](\A t \in Tasks :
             (task[t].delivered # {} \/ task[t].todo # <<>>)
             => task[t].pc = "send" /\ task[t].saved = "ok")

\* An announcement has reached a channel.
C2_Witness == \E t \in Tasks : task[t].delivered # {}

\* C3: When the fetch fails, or no destination channel is found, run_check
\* returns False, enters no channel loop, and leaves posted_games,
\* posted_upcoming, last_daily_run, the file and pending_confirmations as
\* they were.
C3_FailureLeavesState ==
    [][ \A t \in Tasks :
          ( /\ task[t].pc = "fetch"
            /\ task'[t].pc # "fetch"
            /\ \/ RunCheckWith(t, FetchNone, <<>>, "ok")
               \/ /\ task[t].ichan = None
                  /\ \E data \in Bodies : RunCheckWith(t, data, <<>>, "ok") )
          => /\ Ret(result') = "False"
             /\ task'[t].pc = "idle"
             /\ UNCHANGED <<posted_games, posted_upcoming, last_daily_run,
                            disk, pending_confirmations>> ]_vars

\* A fetch has just failed with offers on record.
C3_Witness == result = "fetchfail" /\ posted_games # <<>> /\ disk.kind = "json"

\* C4: posted_upcoming never holds two entries with the same title.
C4_NoDuplicateUpcoming == NoDuplicateTitle(posted_upcoming)

\* C5: On the changed path the embeds are built from the whole fetched
\* current list and from exactly the fetched upcoming offers whose titles
\* were not stored before the call; the stored upcoming offers stay in place
\* and the new ones are appended.
C5_AnnouncesOnlyNew ==
    [][ \A t \in Tasks :
          (task[t].pc = "fetch" /\ task'[t].pc = "send")
          => LET fetched == last'.data
                 NotStored(g) == \A i \in 1..Len(posted_upcoming) :
                                    posted_upcoming[i].title # g.title
                 fresh == SelectSeq(fetched.nextGames, NotStored)
             IN  /\ last'.annCur = fetched.currentGames
                 /\ last'.annUp = fresh
                 /\ posted_games' = fetched.currentGames
                 /\ posted_upcoming' = posted_upcoming \o fresh
                 /\ task'[t].todo # <<>> ]_vars

\* Stored upcoming [A], fetched nextGames [A, B]: stored [A, B], and the
\* upcoming embeds hold B only.
C5_Witness ==
    /\ last.changed
    /\ last.data.nextGames = <<[title |-> "A"], [title |-> "B"]>>
    /\ last.annUp = <<[title |-> "B"]>>
    /\ posted_upcoming = <<[title |-> "A"], [title |-> "B"]>>
    /\ \E t \in Tasks : task[t].pc = "send"

\* C6: On the Unchanged path run_check leaves posted_games, posted_upcoming,
\* last_daily_run and the file as they are and enters no channel loop; the
\* requester's grant is set to now + the window when a requester and an
\* interaction channel were both passed, and pending_confirmations is left
\* alone otherwise; the scheduler passes neither.
C6_UnchangedFrame ==
    /\ [][ \A t \in Tasks :
             ( /\ task[t].pc = "fetch"
               /\ task'[t].pc # "fetch"
               /\ \E data \in Bodies :
                     /\ TitleSet(data.currentGames) = TitleSet(posted_games)
                     /\ \E found \in ChannelLists :
                           /\ Destinations(task[t].ichan, found) # <<>>
                           /\ RunCheckWith(t, data, found, "ok") )
             => /\ result' = "same"
                /\ task'[t].pc = "idle"
                /\ UNCHANGED <<posted_games, posted_upcoming, last_daily_run,
                               disk>>
                /\ pending_confirmations' =
                      IF task[t].reqr # None /\ task[t].ichan # None
                      THEN DictSet(pending_confirmations, task[t].reqr,
                                   clock + ConfirmWindow)
                      ELSE pending_confirmations ]_vars
    /\ [](task["sched"].reqr = None /\ task["sched"].ichan = None)

\* A manual check in a channel has just ended Unchanged and left a grant.
C6_Witness ==
    /\ result = "same"
    /\ Owner \in DOMAIN pending_confirmations
    /\ pending_confirmations[Owner] = clock + ConfirmWindow
    /\ posted_games # <<>>

(***************************************************************************)
(* The scheduler trigger: the days 0..MaxDay with restarts, over the       *)
(* responses without upcoming offers.                                      *)
(***************************************************************************)
SchedInputs == {d \in FetchResults : d.nextGames = <<>> /\ d.kind # "empty"}

NextSched ==
    \/ Tick(MaxClock)
    \/ Boot(MaxBoots)
    \/ OnReady
    \/ Shutdown
    \/ DailyCheck
    \/ Getgame
    \/ \E t \in Tasks : RunCheck(t, SchedInputs, ChannelLists, SaveOutcomes)
    \/ \E t \in Tasks : Announce(t)

SpecSched == Init /\ [][NextSched]_vars

\* The scheduler calls run_check in this step.
SchedulerInvokes == task["sched"].pc = "idle" /\ task'["sched"].pc = "fetch"

\* C7: The scheduler trigger (on_ready's catch-up and daily_check) never
\* calls run_check twice for the same calendar date, across restarts and
\* whatever the earlier call's outcome.
C7_OncePerDate == [][SchedulerInvokes => schedDay # DayOf(clock)]_vars

\* C8: Every iteration of daily_check, at 17:01 of a day the process is
\* running, calls run_check without requester and channel, unless the
\* scheduler has already done so that day; manual checks change nothing
\* about it.
C8_DailyAlwaysRuns ==
    [][ (DailyDue /\ nextFire' = nextFire + DayLen)
        => \/ /\ SchedulerInvokes
              /\ task'["sched"].reqr = None
              /\ task'["sched"].ichan = None
           \/ schedDay = DayOf(clock) ]_vars

\* C9: on_ready calls run_check, once, exactly when at its start 17:01 had
\* passed that day and last_daily_run is not that day; the loop is started
\* after that call has ended and never while it runs; without a late start
\* on_ready starts the loop and calls nothing.
C9_CatchUp ==
    /\ [][ (proc = "onready" /\ proc' \notin {"onready", "down"})
           => IF SlotOf(startNow) >= TargetSlot
                    /\ last_daily_run # DayOf(startNow)
              THEN /\ proc' = "catchup"
                   /\ SchedulerInvokes
                   /\ ~armed'
              ELSE /\ proc' = "ready"
                   /\ armed'
                   /\ task' = task ]_vars
    /\ [][ (~armed /\ armed') => task'["sched"].pc = "idle" ]_vars
    /\ [][ proc = "catchup" => ~SchedulerInvokes ]_vars
    /\ [](proc = "catchup"
             => ~armed /\ task["sched"].pc \in {"fetch", "send"})

\* The catch-up call is in its channel loop and the loop is not started.
C9_Witness ==
    proc = "catchup" /\ task["sched"].pc = "send" /\ ~armed

(***************************************************************************)
(* The confirmation window: one process start on day 0, manual checks and  *)
(* confirms, over the responses with a current offer and no upcoming one.  *)
(***************************************************************************)
ConfirmInputs == {d \in Bodies : d.currentGames # <<>> /\ d.nextGames = <<>>}

NextConfirm ==
    \/ Tick(DayLen - 1)
    \/ Boot(1)
    \/ OnReady
    \/ DailyCheck
    \/ Getgame
    \/ \E t \in Tasks : RunCheck(t, ConfirmInputs, {<<"c1", "c2">>}, {"ok"})
    \/ \E t \in Tasks : Announce(t)
    \/ \E u \in Users : ConfirmDefer(u)
    \/ \E u \in Users : Confirm(u)

SpecConfirm == Init /\ [][NextConfirm]_vars

\* C10: A /confirm of user u succeeds exactly when pending_confirmations
\* holds an entry for u with now <= expiry; then it shows posted_games and
\* deletes the entry, otherwise it leaves pending_confirmations as it is; no
\* grant is redeemed twice, also with several confirms of u in flight.
C10_SingleUse ==
    /\ [][ \A u \in Users :
             (confirming'[u] = confirming[u] - 1 /\ proc' # "down")
             => LET live == /\ u \in DOMAIN pending_confirmations
                            /\ clock <= pending_confirmations[u]
                IN  /\ reply'.to = u
                    /\ reply'.ok = live
                    /\ live => /\ reply'.games = posted_games
                               /\ pending_confirmations' =
                                     DictPop(pending_confirmations, u)
                               /\ u \notin DOMAIN pending_confirmations'
                    /\ ~live => pending_confirmations' = pending_confirmations
           ]_vars
    /\ [](\A u \in Users : uses[u] <= 1)

\* A confirm has shown the games at the very expiry of the grant while
\* another confirm of the same user is in flight.
C10_Witness ==
    /\ reply.ok /\ reply.to = Owner /\ reply.games # <<>>
    /\ uses[Owner] = 1
    /\ confirming[Owner] > 0
    /\ Owner \notin DOMAIN pending_confirmations

(***************************************************************************)
(* The state store: the file in any condition at the first start, restarts *)
(* before 17:01, manual checks, saves that succeed or fail.                *)
(***************************************************************************)
FileConditions ==
    {AbsentFile, CorruptFile, UnreadableFile, NotDictFile}
        \cup {JsonFile(cur, upc, ldr) : cur \in SeqsUpTo(Offers, MaxCurrent),
                                        upc \in SeqsUpTo(Offers, MaxCurrent),
                                        ldr \in {NoDate} \cup 0..MaxDay}

InitStore ==
    /\ disk \in FileConditions
    /\ clock = 0
    /\ proc = "down"
    /\ boots = 0
    /\ posted_games = <<>>
    /\ posted_upcoming = <<>>
    /\ last_daily_run = NoDate
    /\ pending_confirmations = EmptyDict
    /\ task = [t \in Tasks |-> IdleTask]
    /\ armed = FALSE
    /\ nextFire = 0
    /\ startNow = 0
    /\ last = NoLast
    /\ result = NoResult
    /\ schedDay = NoDate
    /\ confirming = [u \in Users |-> 0]
    /\ reply = NoReply
    /\ uses = [u \in Users |-> 0]
    /\ wire = [t \in Tasks |-> NoResponse]
    /\ newest = NoResponse
    /\ stamped = NoDate

StoreInputs == {d \in FetchResults : Len(d.nextGames) <= 1 /\ d.kind # "empty"}

NextStore ==
    \/ Boot(MaxBoots)
    \/ OnReady
    \/ Shutdown
    \/ Getgame
    \/ \E t \in Tasks : RunCheck(t, StoreInputs, ChannelLists, SaveOutcomes)
    \/ \E t \in Tasks : Announce(t)

SpecStore == InitStore /\ [][NextStore]_vars

\* What the process holds in memory, as the record load yields.
Memory == [current |-> posted_games, upcoming |-> posted_upcoming,
           last_daily_run |-> last_daily_run]

\* C11: Whatever happens to the file in a step, a load after it yields
\* either what a load before the step would have yielded or the three values
\* the process holds after the step: a save is all or nothing, and it never
\* loses the state the file held.
C11_SaveAtomic ==
    [][ disk' # disk => Load(disk') \in {Load(disk), Memory'} ]_vars

\* C12: Every process start gets through the load block, whatever the
\* condition of the file, and a file that is no JSON object leaves the zero
\* state.
C12_LoadNeverFails ==
    [][ (proc = "down" /\ boots' = boots + 1)
        => /\ proc' = "onready"
           /\ disk.kind # "json"
                 => Memory' = [current |-> <<>>, upcoming |-> <<>>,
                               last_daily_run |-> NoDate] ]_vars

\* A run_check call takes the changed path in this step.
TakesChangedPath(t) ==
    /\ task[t].pc = "fetch"
    /\ \/ task'[t].pc = "send"
       \/ task'[t].pc = "idle" /\ result' = "raised"

C14_IndependentDelivery ==
    [][ \A t \in Tasks :
          (task[t].pc = "send" /\ task'[t] # task[t] /\ proc' # "down")
          => /\ UNCHANGED <<posted_games, posted_upcoming, last_daily_run,
                            disk>>
             /\ disk = JsonFile(posted_games, posted_upcoming, last_daily_run)
             /\ IF Len(task[t].todo) > 1
                THEN /\ task'[t].pc = "send"
                     /\ task'[t].todo = Tail(task[t].todo)
                     /\ task'[t].delivered \in
                           {task[t].delivered,
                            task[t].delivered \cup {Head(task[t].todo)}}
                ELSE /\ task'[t].pc = "idle"
                     /\ result' = "announced"
                     /\ Ret(result') = "True" ]_vars

\* The send to the first of two channels has failed and the loop is at the
\* second.
C14_Witness ==
    \E t \in Tasks :
       /\ task[t].pc = "send"
       /\ task[t].todo = <<"c2">>
       /\ task[t].delivered = {}

\* No call of run_check is between its first line and its return.
NoRunCheck == \A t \in Tasks : task[t].pc = "idle"

\* C21: Whenever the process is up and no run_check is executing, the file
\* can be loaded and a load of it yields the three values the process holds
\* in memory, whatever fetches, saves and sends have succeeded or failed
\* before.
C21_MemoryDiskAgreement ==
    (proc # "down" /\ NoRunCheck)
        => /\ ~LoadRaises(disk)
           /\ Memory = Load(disk)

(***************************************************************************)
(* are_games_same, over offers that carry a description beside the title:  *)
(* a first start on a file with any current list, and manual checks.       *)
(***************************************************************************)
Descriptions == {"d1", "d2"}
DescribedOffers == [title : Titles, description : Descriptions]
StoredLists == SeqsUpTo(DescribedOffers, MaxStored)

InitSame ==
    /\ disk \in {JsonFile(cur, <<>>, NoDate) : cur \in StoredLists}
    /\ clock = 0
    /\ proc = "down"
    /\ boots = 0
    /\ posted_games = <<>>
    /\ posted_upcoming = <<>>
    /\ last_daily_run = NoDate
    /\ pending_confirmations = EmptyDict
    /\ task = [t \in Tasks |-> IdleTask]
    /\ armed = FALSE
    /\ nextFire = 0
    /\ startNow = 0
    /\ last = NoLast
    /\ result = NoResult
    /\ schedDay = NoDate
    /\ confirming = [u \in Users |-> 0]
    /\ reply = NoReply
    /\ uses = [u \in Users |-> 0]
    /\ wire = [t \in Tasks |-> NoResponse]
    /\ newest = NoResponse
    /\ stamped = NoDate

SameInputs == [kind : {"json"},
               currentGames : SeqsUpTo(DescribedOffers, MaxCurrent),
               nextGames : {<<>>}]

NextSame ==
    \/ Boot(1)
    \/ OnReady
    \/ Getgame
    \/ \E t \in Tasks : RunCheck(t, SameInputs, {<<"c1", "c2">>}, {"ok"})
    \/ \E t \in Tasks : Announce(t)

SpecSame == InitSame /\ [][NextSame]_vars

\* Every title of either list is a title of the other.
SameTitles(a, b) ==
    /\ \A i \in 1..Len(a) : \E j \in 1..Len(b) : a[i].title = b[j].title
    /\ \A j \in 1..Len(b) : \E i \in 1..Len(a) : a[i].title = b[j].title

\* C15: are_games_same(a, b) is true exactly when every title of a is a
\* title of b and every title of b a title of a, whatever the descriptions,
\* the order and the repetitions; it is symmetric and reflexive; and
\* run_check ends Unchanged exactly when the fetched and the stored list
\* stand in that relation.
C15_SameIffTitleSets ==
    /\ \A a \in StoredLists, b \in StoredLists :
          /\ are_games_same(a, b) <=> SameTitles(a, b)
          /\ are_games_same(a, b) <=> are_games_same(b, a)
          /\ are_games_same(a, a)
    /\ [][ \A t \in Tasks :
             (task[t].pc = "fetch" /\ task'[t].pc # "fetch")
             => \A data \in SameInputs :
                   RunCheckWith(t, data, <<"c1", "c2">>, "ok")
                   => (result' = "same"
                          <=> SameTitles(data.currentGames, posted_games)) ]_vars

\* A check has ended Unchanged on a stored list that holds one title twice,
\* under two descriptions.
C15_Witness ==
    /\ result = "same"
    /\ Len(posted_games) = 2
    /\ posted_games[1].title = posted_games[2].title
    /\ posted_games[1].description # posted_games[2].description

(***************************************************************************)
(* The run date and failed saves, under SpecSched.                         *)
(***************************************************************************)
\* C16: last_daily_run only moves forward.  A running process changes it only
\* to the date of the clock, later than the date it held; and once line 266
\* has assigned a date, no process, a restarted one included, holds an
\* earlier date or none.
C16_ForwardOnly ==
    /\ [][ (proc # "down" /\ proc' # "down"
                /\ last_daily_run' # last_daily_run)
           => /\ last_daily_run' = DayOf(clock)
              /\ last_daily_run' > last_daily_run ]_vars
    /\ [](proc # "down" => last_daily_run >= stamped)

\* save_posted() fails in this step of the call t.
SaveFails(t) ==
    /\ TakesChangedPath(t)
    /\ disk' # JsonFile(posted_games', posted_upcoming', last_daily_run')

\* C19: When save_posted() fails, run_check ends with a value returned to
\* its caller, and the daily loop is running once on_ready is through.
C19_PersistFailureReported ==
    [][ \A t \in Tasks :
          SaveFails(t)
          => /\ task'[t].pc = "idle"
             /\ Ret(result') \in {"True", "False"}
             /\ proc' = "ready" => armed' ]_vars

(***************************************************************************)
(* Overlapping calls.  fetch_games() awaits the endpoint: the endpoint      *)
(* answers a request at one moment (Serve) and run_check resumes with that *)
(* answer at a later one (Receive), so the answers of two calls in flight  *)
(* can arrive in either order.                                             *)
(***************************************************************************)
\* Lines 148-152: the endpoint answers the request of the call t.
Serve(t, inputs) ==
    /\ task[t].pc = "fetch"
    /\ wire[t] = NoResponse
    /\ \E data \in inputs :
          /\ wire' = [wire EXCEPT ![t] = data]
          /\ newest' = IF Falsy(data) THEN newest ELSE data
    /\ result' = NoResult
    /\ UNCHANGED <<clock, proc, boots, posted_games, posted_upcoming,
                   last_daily_run, disk, pending_confirmations, task, armed,
                   nextFire, startNow, last, schedDay, confirming, reply, uses,
                   stamped>>

\* Line 237: run_check resumes with the answer that was on its way.
Receive(t, founds, outcomes) ==
    /\ wire[t] # NoResponse
    /\ \E found \in FoundRead(t, wire[t], founds),
          outcome \in SaveRead(wire[t], outcomes) :
          RunCheckWith(t, wire[t], found, outcome)
    /\ wire' = [wire EXCEPT ![t] = NoResponse]
    /\ UNCHANGED newest

RaceInputs == {d \in Bodies : Len(d.nextGames) <= 1}

NextRace ==
    \/ Tick(TargetSlot)
    \/ Boot(1)
    \/ OnReady
    \/ DailyCheck
    \/ Getgame
    \/ \E t \in Tasks : Serve(t, RaceInputs)
    \/ \E t \in Tasks : Receive(t, {<<"c1", "c2">>}, {"ok"})
    \/ \E t \in Tasks : Announce(t)

SpecRace == Init /\ [][NextRace]_vars

\* The call t resumes from fetch_games() in this step.
Resumes(t) == task[t].pc = "fetch" /\ task'[t].pc # "fetch"

\* C17: Two overlapping calls with the same response.  When the answers on
\* their way to both calls are the same and one call resumes, the stored
\* titles are then those of the answer and none of its upcoming titles is
\* left to append if that call took the changed path; and a call that
\* resumes with the response of the latest changed call while the other call
\* is in its channel loop ends Unchanged: it changes neither memory nor the
\* file, appends nothing to posted_upcoming and enters no channel loop.
C17_Serialized ==
    /\ [][ \A t \in Tasks, u \in Tasks :
             (t # u /\ Resumes(t) /\ wire[t] # NoResponse /\ wire[u] = wire[t])
             => /\ SameTitles(wire'[u].currentGames, posted_games')
                /\ task'[t].pc = "send"
                      => \A i \in 1..Len(wire'[u].nextGames) :
                            \E j \in 1..Len(posted_upcoming') :
                               posted_upcoming'[j].title =
                                  wire'[u].nextGames[i].title ]_vars
    /\ [][ \A t \in Tasks, u \in Tasks :
             (t # u /\ Resumes(u) /\ task[t].pc = "send"
                 /\ last.changed /\ wire[u] = last.data)
             => /\ result' = "same"
                /\ task'[u].pc = "idle"
                /\ UNCHANGED <<posted_games, posted_upcoming, last_daily_run,
                               disk, stamped>> ]_vars

\* The scheduled call is in its channel loop, having stored an upcoming
\* offer, and the manual call has just ended Unchanged on the same response.
C17_Witness ==
    /\ task["sched"].pc = "send"
    /\ task["manual"].pc = "idle"
    /\ result = "same"
    /\ last.changed
    /\ last.annUp # <<>>
    /\ posted_upcoming = last.annUp

\* C18: Whenever no run_check is in progress, the stored current offers
\* have the titles of the answer the endpoint gave last.
C18_ReflectsNewestFetch ==
    (proc # "down" /\ newest # NoResponse
        /\ \A t \in Tasks : task[t].pc = "idle")
    => SameTitles(posted_games, newest.currentGames)

(***************************************************************************)
(* The local clock.  CET is Europe/Warsaw, which has daylight-saving time: *)
(* at a shift the local clock jumps while no time passes.  What waits on   *)
(* the event loop (the sleep of tasks.loop, the expiry of a grant) is due  *)
(* after the same span as before, which is one instant later on the local  *)
(* clock.                                                                  *)
(***************************************************************************)
ClockShift ==
    /\ clock < MaxClock
    /\ ~DailyDue
    /\ clock' = clock + 1
    /\ nextFire' = IF armed THEN nextFire + 1 ELSE nextFire
    /\ pending_confirmations' =
          [m \in DOMAIN pending_confirmations |-> pending_confirmations[m] + 1]
    /\ result' = NoResult
    /\ UNCHANGED <<proc, boots, posted_games, posted_upcoming, last_daily_run,
                   disk, task, armed, startNow, last, schedDay, confirming,
                   reply, uses, wire, newest, stamped>>

NextDrift ==
    \/ Tick(MaxClock)
    \/ ClockShift
    \/ Boot(MaxBoots)
    \/ OnReady
    \/ Shutdown
    \/ DailyCheck
    \/ \E t \in Tasks : RunCheck(t, SchedInputs, ChannelLists, {"ok"})
    \/ \E t \in Tasks : Announce(t)

SpecDrift == Init /\ [][NextDrift]_vars

\* C20: Every iteration of daily_check starts at 17:01 on the local clock,
\* and the one after it is due at the next 17:01 after the current time.
C20_NoDrift ==
    [][ (DailyDue /\ nextFire' = nextFire + DayLen)
        => /\ SlotOf(clock) = TargetSlot
           /\ nextFire' = FirstFire(clock) ]_vars

=============================================================================
